---- MODULE Spec2Model ----
(***************************************************************************)
(* A model of pyhomekit: the Pair-Setup session (pairing.py, SRPPairSetup) *)
(* and the retry-wrapped characteristic reads (ble.py, utils.py).          *)
(*                                                                         *)
(* Byte strings are sequences over 0..255.  The 3072-bit group (N, g) and  *)
(* SHA-512 are replaced by a small prime group and a small hash, computed  *)
(* through the same conversions (to_bytes, from_bytes, padding) as the     *)
(* code.  Values handed to the receive handlers are tagged as Python ints  *)
(* or bytes, since the handlers compare and convert them differently.      *)
(***************************************************************************)
EXTENDS Integers, Sequences, FiniteSets, TLC

(***************************************************************************)
(* Bounds of the model.                                                    *)
(***************************************************************************)
\* number of handler calls made on a single Pair-Setup session
MaxCalls == 6
\* number of handler calls made on two sessions sharing a storage folder
MaxSharedCalls == 3
\* number of attempts setup(max_attempts=...) may be given, at most
MaxAttemptsBound == 3
\* the number of times setup_tenacity is applied to a characteristic
MaxSetups == 2

(***************************************************************************)
(* Group and hash standing in for pairing.py's N, g and SHA-512.           *)
(***************************************************************************)
N == 23
g == 5
HashMod == 16

\* 'Pair-Setup'
USERNAME == <<80, 97, 105, 114, 45, 83, 101, 116, 117, 112>>

\* Python values: an int, a bytes object or a str (held as its utf-8 bytes)
IntV(n) == [t |-> "int", n |-> n, b |-> <<>>]
BytesV(b) == [t |-> "bytes", n |-> 0, b |-> b]
StrV(b) == [t |-> "str", n |-> 0, b |-> b]
NoneV == [t |-> "none", n |-> 0, b |-> <<>>]

\* int.bit_length()
RECURSIVE bit_length(_)
bit_length(v) == IF v = 0 THEN 0 ELSE 1 + bit_length(v \div 2)

PAD_L == bit_length(N) \div 8

\* value.to_bytes(n, 'big') for a value that fits n bytes
RECURSIVE BigEndian(_, _)
BigEndian(v, n) == IF n = 0 THEN <<>> ELSE Append(BigEndian(v \div 256, n - 1), v % 256)

RECURSIVE Reverse(_)
Reverse(s) == IF s = <<>> THEN <<>> ELSE Append(Reverse(Tail(s)), Head(s))

\* to_bytes(value, little_endian): the shortest byte string holding value
to_bytes(value, little_endian) ==
    LET n  == (bit_length(value) + 7) \div 8
        be == BigEndian(value, n)
    IN  IF little_endian THEN Reverse(be) ELSE be

\* bytes.hex(): two hexadecimal digits per byte, high digit first
RECURSIVE Hex(_)
Hex(bs) == IF bs = <<>> THEN <<>>
           ELSE <<Head(bs) \div 16, Head(bs) % 16>> \o Hex(Tail(bs))

\* int(digits, 16) of a non-empty digit string
RECURSIVE IntOfHex(_)
IntOfHex(ds) == IF ds = <<>> THEN 0
                ELSE 16 * IntOfHex(SubSeq(ds, 1, Len(ds) - 1)) + ds[Len(ds)]

\* int('', 16) raises ValueError: from_bytes is defined on non-empty strings
from_bytes_defined(value) == value # <<>>

\* from_bytes(value, little_endian): the hex STRING is reversed, digit by digit
from_bytes(value, little_endian) ==
    LET value_hex == Hex(value)
    IN  IntOfHex(IF little_endian THEN Reverse(value_hex) ELSE value_hex)

\* hashlib.sha512 of a byte string, as an integer
RECURSIVE sha512(_)
sha512(bs) == IF bs = <<>> THEN 7
              ELSE (sha512(SubSeq(bs, 1, Len(bs) - 1)) * 5 + bs[Len(bs)] + 1) % HashMod

RECURSIVE Zeros(_)
Zeros(n) == IF n <= 0 THEN <<>> ELSE <<0>> \o Zeros(n - 1)

\* H's conversion of one argument: ints big-endian, strings as their bytes,
\* left-padded with zero bytes to PAD_L when pad is set
HArg(arg, pad) ==
    LET b == IF arg.t = "int" THEN to_bytes(arg.n, FALSE) ELSE arg.b
    IN  IF pad THEN Zeros(PAD_L - Len(b)) \o b ELSE b

RECURSIVE Join(_, _, _)
Join(args, sep, pad) ==
    IF args = <<>> THEN <<>>
    ELSE IF Len(args) = 1 THEN HArg(args[1], pad)
    ELSE HArg(args[1], pad) \o sep \o Join(Tail(args), sep, pad)

\* H(*args, sep, pad)
H(args, sep, pad) == sha512(Join(args, sep, pad))

k == H(<<IntV(N), IntV(g)>>, <<>>, TRUE)

\* pow(base, e, n) for e >= 0; Python reduces a negative base into 0..n-1
RECURSIVE pow(_, _, _)
pow(base, e, n) ==
    IF e = 0 THEN 1 % n
    ELSE LET half == pow(base, e \div 2, n)
         IN  IF e % 2 = 0 THEN (half * half) % n
             ELSE (half * half * (base % n)) % n

\* the ^ of two non-negative ints
RECURSIVE xor(_, _)
xor(p, q) == IF p = 0 THEN q
             ELSE IF q = 0 THEN p
             ELSE ((p + q) % 2) + 2 * xor(p \div 2, q \div 2)


(***************************************************************************)
(* TLV encoding and decoding.                                              *)
(***************************************************************************)
\* the largest payload of one TLV chunk
MaxChunk == 255

\* utils.prepare_tlv(type, value): the chunks of one TLV, each
\* [type][length <= 255][bytes]; an empty value gives one chunk of length 0
RECURSIVE prepare_tlv(_, _)
prepare_tlv(type, value) ==
    IF Len(value) <= MaxChunk THEN << <<type, Len(value)>> \o value >>
    ELSE << <<type, MaxChunk>> \o SubSeq(value, 1, MaxChunk) >>
         \o prepare_tlv(type, SubSeq(value, MaxChunk + 1, Len(value)))

RECURSIVE Concat(_)
Concat(chunks) == IF chunks = <<>> THEN <<>> ELSE Head(chunks) \o Concat(Tail(chunks))

\* b''.join(data for ktlv in ktlvs for data in utils.prepare_tlv(*ktlv))
RECURSIVE prepared(_)
prepared(ktlvs) ==
    IF ktlvs = <<>> THEN <<>>
    ELSE Concat(prepare_tlv(Head(ktlvs)[1], Head(ktlvs)[2])) \o prepared(Tail(ktlvs))

Min(p, q) == IF p < q THEN p ELSE q

\* iterate_tvl with every slice one byte short: a decoder that the round
\* trip tells apart from the one of the code
RECURSIVE iterate_from_short(_, _)
iterate_from_short(response, start) ==
    IF ~(start < Len(response)) THEN [items |-> <<>>, err |-> FALSE]
    ELSE IF start + 2 > Len(response) THEN [items |-> <<>>, err |-> TRUE]
    ELSE LET body_type == response[start + 1]
             length    == response[start + 2]
             bytes_    == SubSeq(response, start + 3, Min(start + 1 + length, Len(response)))
             rest      == iterate_from_short(response, start + 2 + length)
         IN  [items |-> << <<body_type, length, bytes_>> >> \o rest.items, err |-> rest.err]

\* iterate_tvl that advances by 1 + length: the scan goes on at the last
\* byte of the chunk it has just yielded
RECURSIVE iterate_from_overlapping(_, _)
iterate_from_overlapping(response, start) ==
    IF ~(start < Len(response)) THEN [items |-> <<>>, err |-> FALSE]
    ELSE IF start + 2 > Len(response) THEN [items |-> <<>>, err |-> TRUE]
    ELSE LET body_type == response[start + 1]
             length    == response[start + 2]
             bytes_    == SubSeq(response, start + 3, Min(start + 2 + length, Len(response)))
             rest      == iterate_from_overlapping(response, start + 1 + length)
         IN  [items |-> << <<body_type, length, bytes_>> >> \o rest.items, err |-> rest.err]

\* utils.iterate_tvl(response) from position start: the triples yielded, and
\* whether the scan ended in an IndexError (a type byte with no length byte).
\* A slice past the end of the response is cut short, not an error.
RECURSIVE iterate_from(_, _)
iterate_from(response, start) ==
    IF ~(start < Len(response)) THEN [items |-> <<>>, err |-> FALSE]
    ELSE IF start + 2 > Len(response) THEN [items |-> <<>>, err |-> TRUE]
    ELSE LET body_type == response[start + 1]
             length    == response[start + 2]
             bytes_    == SubSeq(response, start + 3, Min(start + 2 + length, Len(response)))
             rest      == iterate_from(response, start + 2 + length)
         IN  [items |-> << <<body_type, length, bytes_>> >> \o rest.items, err |-> rest.err]

iterate_tvl(response) == iterate_from(response, 0)

\* constants.PairingKTlvValues
kTLVType_Method == 0
kTLVType_Identifier == 1
kTLVType_Salt == 2
kTLVType_PublicKey == 3
kTLVType_Proof == 4
kTLVType_EncryptedData == 5
kTLVType_State == 6
kTLVType_Signature == 10
\* constants.PairingKTLVMethodValues
Pair_Setup == 1
\* constants.HapParamTypes
Value == 1
Return_Response == 9

\* utils.parse_ktlvs(data): the kTLVs of data by type, the bytes of chunks
\* of one type concatenated in order of appearance
RECURSIVE reassemble(_, _)
reassemble(items, type) ==
    IF items = <<>> THEN <<>>
    ELSE (IF Head(items)[1] = type THEN Head(items)[3] ELSE <<>>)
         \o reassemble(Tail(items), type)

parse_ktlvs(data) ==
    LET it   == iterate_tvl(data)
        keys == {it.items[j][1] : j \in 1..Len(it.items)}
    IN  [err |-> it.err, dict |-> [type \in keys |-> reassemble(it.items, type)]]

(***************************************************************************)
(* The primitives of the cryptographic libraries, as far as the handlers   *)
(* depend on them.                                                         *)
(***************************************************************************)
\* HKDF-SHA-512 of the input key material: a byte string
hkdf_derive(ikm, salt) == <<sha512(salt \o ikm)>>

\* an Ed25519 signature of msg that verifies under the public key ltpk
ed25519_sign(ltpk, msg) == <<sha512(ltpk \o msg)>>

\* ChaCha20-Poly1305: a sealed box names the key it was sealed under;
\* decryption returns the plaintext under that key and fails under any other
aead_encrypt(key, message) == [key |-> key, message |-> message]
aead_decrypt_ok(box, key) == box.key = key

(***************************************************************************)
(* Pair-Setup sessions.                                                    *)
(***************************************************************************)
\* setup codes 'XXX-XX-XXX', by their first digit
SetupCode(d) == <<48 + d, 49, 49, 45, 50, 50, 45, 51, 51, 51>>
\* a setup_code argument: None, or a code
NoCode == [given |-> FALSE, code |-> <<>>]
Code1 == [given |-> TRUE, code |-> SetupCode(1)]
Code2 == [given |-> TRUE, code |-> SetupCode(2)]

\* signing_key = None, verifying_key = None
NoKey == 0

\* the values random_int draws for a (any value in 0..N-1 can be drawn)
RandomInts == {2, 7}

VARIABLES
    sess,      \* the fields of each SRPPairSetup object
    storage,   \* the files of the storage folder the sessions share
    pc,        \* where each session's thread is inside a handler
    ret,       \* how the last handler call on each session ended
    hist,      \* per session: what has been called and how it ended
    writes,    \* per session and file: how often the session wrote the file
    nextKey,   \* the number of key pairs create_keypair has handed out
    calls      \* the number of handler calls the caller still makes

pairVars == <<sess, storage, pc, ret, hist, writes, nextKey, calls>>

Sessions == DOMAIN sess

Files == {"secret-key", "accessory_pairing_id", "accessory_ltpk"}

\* SRPPairSetup.__init__
NewSession(setup_code) ==
    [setup_code |-> setup_code,
     B |-> 0, s |-> 0, x |-> 0, a |-> 0, A |-> 0, u |-> 0, S |-> 0, K |-> 0,
     M1 |-> 0, M2 |-> 0, X |-> IntV(0), state |-> 0,
     signing_key |-> NoKey, verifying_key |-> NoKey,
     accessory_pairing_id |-> <<>>, accessory_ltpk |-> <<>>,
     accessory_signature |-> <<>>]

NoCall == [op |-> "none", state |-> NoneV, err |-> "none", msg |-> <<>>]

\* the sessions constructed: objects 1..n, the first without a setup code,
\* the others with one, all on the same storage folder
Constructed(n, budget) ==
    /\ sess = [i \in 1..n |-> NewSession(IF i = 1 THEN NoCode ELSE Code1)]
    /\ storage = [f \in Files |-> [by |-> 0, data |-> <<>>]]
    /\ pc = [i \in 1..n |-> "idle"]
    /\ ret = [i \in 1..n |-> NoCall]
    /\ hist = [i \in 1..n |-> [at |-> 0, m3called |-> FALSE, m4 |-> "never", order |-> 0]]
    /\ writes = [i \in 1..n |-> [f \in Files |-> 0]]
    /\ nextKey = 0
    /\ calls = budget

\* the message number of a handler
OpNumber(op) == CASE op = "m1" -> 1 [] op = "m2" -> 2 [] op = "m3" -> 3
                  [] op = "m4" -> 4 [] op = "m5" -> 5 [] op = "m6" -> 6

\* the bookkeeping of a finished call of op on session i: the State value it
\* was given (NoneV for a handler that takes none), the error it raised or
\* "ok", and the message it returned
Returned(i, op, state, err, msg) ==
    /\ ret' = [ret EXCEPT ![i] = [op |-> op, state |-> state, err |-> err, msg |-> msg]]
    /\ hist' = [hist EXCEPT ![i] =
                  [at |-> OpNumber(op),
                   m3called |-> @.m3called \/ op = "m3",
                   m4 |-> IF op = "m4" THEN (IF err = "ok" THEN "ok" ELSE "failed") ELSE @.m4,
                   order |-> IF op = "m1" /\ @.order = 0 THEN 1
                             ELSE IF op = "m2" /\ @.order = 1 THEN 2
                             ELSE IF op = "m3" /\ @.order = 2 THEN 3
                             ELSE IF op = "m4" /\ @.order = 3 THEN 4
                             ELSE IF op = "m5" /\ @.order = 4 THEN 5
                             ELSE IF op = "m6" /\ @.order = 5 THEN 6
                             ELSE -1]]

\* A handler is called on an idle session.  The caller walks the handshake
\* forwards: it may skip messages and may repeat the one it is at, and it
\* does not go back to an earlier one.
Called(i, op) ==
    /\ pc[i] = "idle"
    /\ OpNumber(op) >= hist[i].at
    /\ calls > 0
    /\ calls' = calls - 1

\* the request message: Return_Response, then Value holding the kTLVs
message_data(return_response, ktlvs) ==
    << <<Return_Response, <<return_response>> >>, <<Value, prepared(ktlvs)>> >>

\* SRPPairSetup.m1_generate_srp_start_request
m1_generate_srp_start_request(i) ==
    /\ Called(i, "m1")
    /\ Returned(i, "m1", NoneV, "ok",
                message_data(1, << <<kTLVType_State, <<1>> >>,
                                   <<kTLVType_Method, <<Pair_Setup>> >> >>))
    /\ UNCHANGED <<sess, storage, pc, writes, nextKey>>

\* The parsed kTLVs handed to m2: State is whatever the caller parsed (bytes
\* or an int), PublicKey and Salt are bytes.
\* SRPPairSetup.m2_receive_srp_start_response, as the session it leaves and
\* the error it raises
m2_result(se, parsed) ==
    IF parsed.State.t # "bytes" THEN [sess |-> se, err |-> "AttributeError"]
    ELSE IF ~from_bytes_defined(parsed.State.b) THEN [sess |-> se, err |-> "ValueError"]
    ELSE IF from_bytes(parsed.State.b, TRUE) # 2 THEN [sess |-> se, err |-> "WrongMessage"]
    ELSE IF ~from_bytes_defined(parsed.PublicKey) THEN [sess |-> se, err |-> "ValueError"]
    ELSE LET withB == [se EXCEPT !.B = from_bytes(parsed.PublicKey, TRUE)]
         IN  IF ~from_bytes_defined(parsed.Salt) THEN [sess |-> withB, err |-> "ValueError"]
             ELSE LET withs == [withB EXCEPT !.s = from_bytes(parsed.Salt, TRUE)]
                  IN  IF withs.B >= N \/ withs.B <= 0
                      THEN [sess |-> withs, err |-> "InvalidPublicKey"]
                      ELSE [sess |-> withs, err |-> "ok"]

\* what an accessory, or whoever answers in its place, can send as M2
M2States == {BytesV(<<2>>), BytesV(<<32>>), IntV(2), BytesV(<<>>)}
M2PublicKeys == {<<0>>, <<128>>, <<113>>}
M2Salts == {<<16>>}

m2_receive_srp_start_response(i) ==
    /\ Called(i, "m2")
    /\ \E st \in M2States, pk \in M2PublicKeys, salt \in M2Salts :
          LET r == m2_result(sess[i], [State |-> st, PublicKey |-> pk, Salt |-> salt])
          IN  /\ sess' = [sess EXCEPT ![i] = r.sess]
              /\ Returned(i, "m2", st, r.err, <<>>)
    /\ UNCHANGED <<storage, pc, writes, nextKey>>

\* a shared secret whose exponent leaves out x
srp_S_without_x(B, x, a, u) == pow(B - (k * pow(g, x, N)), a + u, N)

\* self.S = pow(self.B - (self.k * pow(self.g, self.x, self.N)),
\*              self.a + (self.u * self.x), self.N)
srp_S(B, x, a, u) == pow(B - (k * pow(g, x, N)), a + (u * x), N)

\* SRPPairSetup.m3_generate_srp_verify_request with the value a drawn by
\* random_int, as the session it leaves, the error and the message
\* the setup code of M3 with the code passed first: the code given at
\* creation is used only when M3 is passed none
m3_setup_code_passed_first(own, setup_code) ==
    IF setup_code.given THEN setup_code ELSE own

\* if self.setup_code is None: self.setup_code = setup_code
m3_setup_code(own, setup_code) ==
    IF ~own.given THEN setup_code ELSE own

m3_result(se, setup_code, a) ==
    LET code == m3_setup_code(se.setup_code, setup_code)
    IN  IF ~code.given THEN [sess |-> se, err |-> "NoSetupCode", msg |-> <<>>]
        ELSE
        LET x  == H(<<IntV(se.s), IntV(H(<<StrV(USERNAME), StrV(code.code)>>, <<58>>, FALSE))>>,
                    <<>>, FALSE)
            A  == pow(g, a, N)
            u  == H(<<IntV(A), IntV(se.B)>>, <<>>, TRUE)
            S  == srp_S(se.B, x, a, u)
            K  == H(<<IntV(S)>>, <<>>, FALSE)
            M1 == H(<<IntV(xor(H(<<IntV(N)>>, <<>>, FALSE), H(<<IntV(g)>>, <<>>, FALSE))),
                      IntV(H(<<StrV(USERNAME)>>, <<>>, FALSE)),
                      IntV(se.s), IntV(A), IntV(se.B), IntV(K)>>, <<>>, FALSE)
        IN  [sess |-> [se EXCEPT !.setup_code = code, !.x = x, !.a = a, !.A = A,
                                 !.u = u, !.S = S, !.K = K, !.M1 = M1],
             err |-> "ok",
             msg |-> message_data(1, << <<kTLVType_State, <<3>> >>,
                                        <<kTLVType_PublicKey, to_bytes(A, TRUE)>>,
                                        <<kTLVType_Proof, to_bytes(M1, TRUE)>> >>)]

m3_generate_srp_verify_request(i) ==
    /\ Called(i, "m3")
    /\ \E setup_code \in {NoCode, Code2}, a \in RandomInts :
          LET r == m3_result(sess[i], setup_code, a)
          IN  /\ sess' = [sess EXCEPT ![i] = r.sess]
              /\ Returned(i, "m3", NoneV, r.err, r.msg)
    /\ UNCHANGED <<storage, pc, writes, nextKey>>

\* the proof the session expects in M4: H(A, M1, K)
M2_calc(se) == H(<<IntV(se.A), IntV(se.M1), IntV(se.K)>>, <<>>, FALSE)

\* SRPPairSetup.m4_receive_srp_verify_response: State is compared with the
\* int 4 as it is (a bytes object never equals an int), Proof is bytes
m4_result(se, parsed) ==
    IF ~(parsed.State.t = "int" /\ parsed.State.n = 4)
    THEN [sess |-> se, err |-> "WrongMessage"]
    ELSE IF ~from_bytes_defined(parsed.Proof) THEN [sess |-> se, err |-> "ValueError"]
    ELSE LET withM2 == [se EXCEPT !.M2 = from_bytes(parsed.Proof, TRUE)]
         IN  IF M2_calc(withM2) # withM2.M2
             THEN [sess |-> withM2, err |-> "AuthenticationFailed"]
             ELSE [sess |-> withM2, err |-> "ok"]

M4States == {IntV(4), IntV(2), BytesV(<<4>>)}
\* the one byte that from_bytes reads as v, for v in 0..255
ReadAs(v) == <<(v % 16) * 16 + (v \div 16)>>

\* the proofs sent as M4: the byte that from_bytes reads as the proof
\* H(A, M1, K), and the byte of a proof that is off by one
M4Proofs(se) == {ReadAs(M2_calc(se)), ReadAs((M2_calc(se) + 1) % HashMod)}

m4_receive_srp_verify_response(i) ==
    /\ Called(i, "m4")
    /\ \E st \in M4States, proof \in M4Proofs(sess[i]) :
          LET r == m4_result(sess[i], [State |-> st, Proof |-> proof])
          IN  /\ sess' = [sess EXCEPT ![i] = r.sess]
              /\ Returned(i, "m4", st, r.err, <<>>)
    /\ UNCHANGED <<storage, pc, writes, nextKey>>

\* open(os.path.join(storage_folder, file), "wb") and write(data), by session i
Write(i, file, data) ==
    /\ storage' = [storage EXCEPT ![file] = [by |-> i, data |-> data]]
    /\ writes' = [writes EXCEPT ![i][file] = @ + 1]

\* SigningKey.to_bytes() of key pair number key
signing_key_bytes(key) == <<key>>

\* SRPPairSetup.m5_generate_exchange_request.  The key pair is created and
\* written when the session has none.  X is then derived as bytes, and
\* to_bytes(self.X) raises AttributeError (bytes has no bit_length) before
\* any message is built; when the hkdf module was not imported by anyone,
\* naming it raises AttributeError before X is derived.
m5_generate_exchange_request(i) ==
    /\ Called(i, "m5")
    /\ LET generate == sess[i].signing_key = NoKey
           key      == IF generate THEN nextKey + 1 ELSE sess[i].signing_key
       IN  /\ nextKey' = IF generate THEN nextKey + 1 ELSE nextKey
           /\ IF generate
              THEN Write(i, "secret-key", signing_key_bytes(key))
              ELSE UNCHANGED <<storage, writes>>
           /\ \E hkdf_imported \in BOOLEAN :
                 sess' = [sess EXCEPT
                    ![i].signing_key = key,
                    ![i].verifying_key = key,
                    ![i].X = IF hkdf_imported
                             THEN BytesV(hkdf_derive(to_bytes(sess[i].S, TRUE), <<1>>))
                             ELSE @]
    /\ Returned(i, "m5", NoneV, "AttributeError", <<>>)
    /\ UNCHANGED pc

\* the accessories that answer M6: their pairing id and long-term public key
Accessories == {[id |-> <<161>>, ltpk |-> <<193>>], [id |-> <<162>>, ltpk |-> <<194>>]}

\* the accessory's device info: its X, its pairing id and its public key
accessory_info(S, acc) == hkdf_derive(to_bytes(S, TRUE), <<2>>) \o acc.id \o acc.ltpk

\* the sub-TLV an accessory seals into M6; forged: the signature is not the
\* accessory's signature of its device info
accessory_sub_tlv(S, acc, forged) ==
    LET signature == ed25519_sign(acc.ltpk, accessory_info(S, acc))
    IN  prepared(<< <<kTLVType_Identifier, acc.id>>,
                    <<kTLVType_PublicKey, acc.ltpk>>,
                    <<kTLVType_Signature,
                      IF forged THEN <<(signature[1] + 1) % 256>> ELSE signature>> >>)

M6States == {IntV(6), IntV(4), BytesV(<<6>>)}

\* SRPPairSetup.m6_receive_exchange_response up to its first write: the
\* state check, the decryption under S, the parse and the three fields.
\* The two files are written one after the other; another session's thread
\* can run between the two writes.
m6_receive_exchange_response(i) ==
    /\ Called(i, "m6")
    /\ \E st \in M6States, acc \in Accessories, forged \in BOOLEAN,
          key \in {sess[i].S, (sess[i].S + 1) % N} :
          LET parsed_ktlvs == [State |-> st,
                               EncryptedData |->
                                   aead_encrypt(key, accessory_sub_tlv(sess[i].S, acc, forged))]
              parsed  == parse_ktlvs(parsed_ktlvs.EncryptedData.message)
              missing == {kTLVType_Identifier, kTLVType_PublicKey, kTLVType_Signature}
                            \ DOMAIN parsed.dict
          IN  IF ~(parsed_ktlvs.State.t = "int" /\ parsed_ktlvs.State.n = 6)
              THEN /\ Returned(i, "m6", st, "WrongMessage", <<>>)
                   /\ UNCHANGED <<sess, storage, writes, pc>>
              ELSE IF ~aead_decrypt_ok(parsed_ktlvs.EncryptedData, sess[i].S)
              THEN /\ Returned(i, "m6", st, "CryptError", <<>>)
                   /\ UNCHANGED <<sess, storage, writes, pc>>
              ELSE IF parsed.err
              THEN /\ Returned(i, "m6", st, "IndexError", <<>>)
                   /\ UNCHANGED <<sess, storage, writes, pc>>
              ELSE IF missing # {}
              THEN /\ Returned(i, "m6", st, "KeyError", <<>>)
                   /\ UNCHANGED <<sess, storage, writes, pc>>
              ELSE /\ sess' = [sess EXCEPT
                         ![i].accessory_pairing_id = parsed.dict[kTLVType_Identifier],
                         ![i].accessory_ltpk = parsed.dict[kTLVType_PublicKey],
                         ![i].accessory_signature = parsed.dict[kTLVType_Signature]]
                   /\ Write(i, "accessory_pairing_id", parsed.dict[kTLVType_Identifier])
                   /\ pc' = [pc EXCEPT ![i] = "m6_write_ltpk"]
                   /\ UNCHANGED <<ret, hist>>
    /\ UNCHANGED nextKey

\* m6_write_accessory_ltpk with the first write repeated in place of the second
m6_write_accessory_ltpk_copied(i) ==
    /\ pc[i] = "m6_write_ltpk"
    /\ Write(i, "accessory_pairing_id", sess[i].accessory_pairing_id)
    /\ pc' = [pc EXCEPT ![i] = "idle"]
    /\ Returned(i, "m6", IntV(6), "ok", <<>>)
    /\ UNCHANGED <<sess, nextKey, calls>>

\* the rest of m6_receive_exchange_response: the second write, and the return
m6_write_accessory_ltpk(i) ==
    /\ pc[i] = "m6_write_ltpk"
    /\ Write(i, "accessory_ltpk", sess[i].accessory_ltpk)
    /\ pc' = [pc EXCEPT ![i] = "idle"]
    /\ Returned(i, "m6", IntV(6), "ok", <<>>)
    /\ UNCHANGED <<sess, nextKey, calls>>

(***************************************************************************)
(* A HAP characteristic and its retry-wrapped reads.                       *)
(***************************************************************************)
\* the transaction ids getrandbits(8) draws (any value in 0..255 can be drawn)
Tids == {0, 1, 255}

VARIABLES
    cid,       \* the cid attribute: "absent" (never assigned), "None" or "bytes"
    retrying,  \* the max_attempts of the retrying wrappers around the two
               \* reads, the innermost (the first one applied) first
    call,      \* the read in progress, the number of its current attempt and
               \* the number of reconnect callbacks run for it
    wire,      \* the transaction ids written to the device by the signature read
    bleRet     \* how the last read ended

bleVars == <<cid, retrying, call, wire, bleRet>>

NoRead == [fn |-> "none", attempt |-> 0, reconnects |-> 0]

\* the last call of a read: how it ended, after how many attempts and
\* reconnect callbacks, the max_attempts last given to setup_tenacity
\* before it (0 when the reads were not wrapped), and whether it read the
\* characteristic-instance-id descriptor
NoReturn ==
    [fn |-> "none", err |-> "none", tid |-> -1, attempts |-> 0, reconnects |-> 0,
     max_attempts |-> 0, descriptor_read |-> FALSE]

\* HapCharacteristic.__init__: cid is declared and not assigned
BleInit ==
    /\ cid = "absent"
    /\ retrying = <<>>
    /\ call = NoRead
    /\ wire = <<>>
    /\ bleRet = NoReturn

\* the owner of the characteristic assigns the cid attribute it declares
assign_cid ==
    /\ call = NoRead
    /\ \E v \in {"None", "bytes"} : cid' = v
    /\ UNCHANGED <<retrying, call, wire, bleRet>>

\* HapCharacteristic.setup_tenacity(max_attempts, wait_time): the
\* attributes read_cid and signature_read, as they are now, are wrapped by
\* a retrying wrapper and replaced by it: a wrapper applied later wraps the
\* wrapper that is there
setup_tenacity ==
    /\ call = NoRead
    /\ Len(retrying) < MaxSetups
    /\ \E max_attempts \in 1..MaxAttemptsBound : retrying' = Append(retrying, max_attempts)
    /\ UNCHANGED <<cid, call, wire, bleRet>>

\* read_cid() or signature_read() is called: every wrapper runs its
\* reconnect callback (before=) on the way to the first attempt
read_called ==
    /\ call = NoRead
    /\ \E fn \in {"read_cid", "signature_read"} :
          call' = [fn |-> fn, attempt |-> 1, reconnects |-> Len(retrying)]
    /\ wire' = <<>>
    /\ UNCHANGED <<cid, retrying, bleRet>>

\* the call in progress ends with err, having read the descriptor or not
EndedAfter(err, tid, descriptor_read) ==
    /\ bleRet' = [fn |-> call.fn, err |-> err, tid |-> tid,
                  attempts |-> call.attempt, reconnects |-> call.reconnects,
                  max_attempts |-> IF retrying = <<>> THEN 0
                                   ELSE retrying[Len(retrying)],
                  descriptor_read |-> descriptor_read]
    /\ call' = NoRead

\* the call in progress ends with err
Ended(err, tid) == EndedAfter(err, tid, FALSE)

\* tenacity.stop_after_attempt(max_attempts) after attempt number attempt
stop_after_attempt(max_attempts, attempt) == attempt >= max_attempts

\* An attempt raised BTLEException.  Unwrapped, the exception reaches the
\* caller; wrapped (utils.reconnect_tenacity_retry), the innermost wrapper
\* runs its reconnect callback and attempts the read again unless this was
\* its attempt number max_attempts, and then it raises RetryError, which
\* is no BTLEException: the wrappers around it let it pass.
TransportError ==
    IF retrying = <<>> THEN Ended("BTLEException", -1)
    ELSE IF stop_after_attempt(retrying[1], call.attempt) THEN Ended("RetryError", -1)
    ELSE /\ call' = [call EXCEPT !.attempt = @ + 1, !.reconnects = @ + 1]
         /\ UNCHANGED bleRet

\* One attempt of HapCharacteristic.signature_read: a new header is built
\* from cid, its data (with a transaction id drawn for this header) is
\* written, and the result is read.  The link can fail before the write
\* reaches the device, after it did, or during the read.
signature_read_attempt ==
    /\ call.fn = "signature_read"
    /\ \/ /\ cid = "absent"
          /\ Ended("AttributeError", -1)
          /\ UNCHANGED wire
       \/ /\ cid = "None"
          /\ Ended("TypeError", -1)
          /\ UNCHANGED wire
       \/ /\ cid = "bytes"
          /\ \E transation_id \in Tids :
                \/ /\ TransportError
                   /\ UNCHANGED wire
                \/ /\ wire' = Append(wire, transation_id)
                   /\ TransportError
                \/ /\ wire' = Append(wire, transation_id)
                   /\ Ended("ok", transation_id)
    /\ UNCHANGED <<cid, retrying>>

\* One attempt of HapCharacteristic.read_cid: the descriptor is read when
\* cid is None
read_cid_attempt ==
    /\ call.fn = "read_cid"
    /\ \/ /\ cid = "absent"
          /\ Ended("AttributeError", -1)
          /\ UNCHANGED cid
       \/ /\ cid = "bytes"
          /\ Ended("ok", -1)
          /\ UNCHANGED cid
       \/ /\ cid = "None"
          /\ \/ /\ TransportError
                /\ UNCHANGED cid
             \/ /\ cid' = "bytes"
                /\ EndedAfter("ok", -1, TRUE)
    /\ UNCHANGED <<retrying, wire>>

(***************************************************************************)
(* The TLV codec on its own: a value is encoded as the pairing code does   *)
(* (the chunks of utils.prepare_tlv, joined), or a byte string arrives     *)
(* from the device, and utils.iterate_tvl decodes it.                      *)
(***************************************************************************)
\* the longest value encoded
MaxValueLen == 511
\* the longest byte string received
MaxRawLen == 4

\* the type codes encoded: the lowest, kTLVType_State and the highest
TlvTypes == {0, kTLVType_State, 255}

\* the lengths of the values encoded: empty, short, around one chunk,
\* around two chunks
ValueLens == {0, 1, 2, MaxChunk - 1, MaxChunk, MaxChunk + 1, MaxChunk + 2,
              MaxValueLen - 1, MaxValueLen}

\* a value of n bytes, each byte depending on its position
Ramp(n, o) == [j \in 1..n |-> (j + o) % 256]

TlvValues == {Ramp(n, o) : n \in ValueLens, o \in {0, 7}}

\* the bytes of the strings received
RawBytes == {0, 1, 2, 3}

RawStreams == UNION {[1..m -> RawBytes] : m \in 0..MaxRawLen}

VARIABLES
    tlvPc,    \* "start", "ready" (stream holds bytes to decode) or "decoded"
    source,   \* the (type, value) that was encoded into stream, if any
    stream,   \* the bytes given to iterate_tvl
    triples   \* what iterate_tvl yielded, and whether it raised IndexError

tlvVars == <<tlvPc, source, stream, triples>>

NoTlv == [given |-> FALSE, type |-> 0, value |-> <<>>]

NotDecoded == [items |-> <<>>, err |-> FALSE]

TlvInit ==
    /\ tlvPc = "start"
    /\ source = NoTlv
    /\ stream = <<>>
    /\ triples = NotDecoded

\* b''.join(utils.prepare_tlv(type, value)), as the pairing code encodes
encode_tlv ==
    /\ tlvPc = "start"
    /\ \E type \in TlvTypes, value \in TlvValues :
          /\ source' = [given |-> TRUE, type |-> type, value |-> value]
          /\ stream' = Concat(prepare_tlv(type, value))
    /\ tlvPc' = "ready"
    /\ UNCHANGED triples

\* bytes arrive from the device
receive_bytes ==
    /\ tlvPc = "start"
    /\ \E raw \in RawStreams : stream' = raw
    /\ tlvPc' = "ready"
    /\ UNCHANGED <<source, triples>>

\* utils.iterate_tvl(stream), consumed to its end
decode_tlv ==
    /\ tlvPc = "ready"
    /\ triples' = iterate_tvl(stream)
    /\ tlvPc' = "decoded"
    /\ UNCHANGED <<source, stream>>

(***************************************************************************)
(* The parameter registry and the status table of constants.py, and the    *)
(* converters of utils.py.                                                 *)
(***************************************************************************)
\* constants.HAP_param_type_code_to_name: defined on the codes 1..18
HAP_param_type_code_to_name ==
    << "Value", "Additional_Authorization_Data", "Origin_local_vs_remote",
       "Characteristic_Type", "Characteristic_Instance_ID", "Service_Type",
       "Service_Instance_ID", "TTL", "Return_Response",
       "HAP_Characteristic_Properties_Descriptor",
       "GATT_User_Description_Descriptor",
       "GATT_Presentation_Format_Descriptor", "GATT_Valid_Range",
       "HAP_Step_Value_Descriptor", "HAP_Service_Properties",
       "HAP_Linked_Services", "HAP_Valid_Values_Descriptor",
       "HAP_Valid_Values_Range_Descriptor" >>

ParamNames == {HAP_param_type_code_to_name[c] : c \in DOMAIN HAP_param_type_code_to_name}

\* constants.HAP_param_name_to_converter
HAP_param_name_to_converter ==
    [name \in ParamNames |->
        CASE name \in {"Characteristic_Type", "Characteristic_Instance_ID",
                       "Service_Type"} -> "to_uuid"
          [] name \in {"Service_Instance_ID",
                       "HAP_Characteristic_Properties_Descriptor",
                       "HAP_Service_Properties"} -> "to_uint16"
          [] name = "GATT_User_Description_Descriptor" -> "to_utf8"
          [] name = "GATT_Presentation_Format_Descriptor" -> "parse_format"
          [] OTHER -> "identity"]

\* constants.format_code_to_name
format_code_to_name ==
    [code \in {1, 4, 6, 8, 10, 16, 20, 25, 27} |->
        CASE code = 1  -> "bool"
          [] code = 4  -> "uint8"
          [] code = 6  -> "unit16"
          [] code = 8  -> "uint32"
          [] code = 10 -> "uint64"
          [] code = 16 -> "int"
          [] code = 20 -> "float"
          [] code = 25 -> "string"
          [] code = 27 -> "data"]

\* constants.format_name_to_converter
format_name_to_converter ==
    [name \in {"bool", "uint8", "uint16", "uint32", "uint64", "int", "float",
               "string", "data"} |->
        CASE name = "bool"   -> "to_bool"
          [] name = "uint8"  -> "to_uint8"
          [] name = "uint16" -> "to_uint16"
          [] name = "uint32" -> "to_uint32"
          [] name = "uint64" -> "to_uint64"
          [] name = "int"    -> "to_int32"
          [] name = "float"  -> "to_float"
          [] name = "string" -> "to_utf8"
          [] name = "data"   -> "lambda x: x"]

\* constants.status_code_to_name: defined on the codes 0..6
status_code_to_name ==
    [code \in 0..6 |->
        CASE code = 0 -> "Success"
          [] code = 1 -> "Unsupported_PDU"
          [] code = 2 -> "Max_Procedures"
          [] code = 3 -> "Insufficient Authorization"
          [] code = 4 -> "Invalid Instance ID"
          [] code = 5 -> "Insufficient Authentication"
          [] code = 6 -> "Invalid Request"]

\* constants.status_code_to_message: defined on the codes 0..6
status_code_to_message ==
    [code \in 0..6 |->
        CASE code = 0 -> "The request was successful."
          [] code = 1 -> "The request failed as the HAP PDU was not recognized or supported."
          [] code = 2 -> "The request failed as the accessory has reached the the limit on the simultaneous procedures it can handle."
          [] code = 3 -> "Characteristic requires additional authorization data."
          [] code = 4 -> "The HAP Request's characteristic Instance id did not match the addressed characteristic's instance id."
          [] code = 5 -> "Characteristic access required a secure session to be established."
          [] code = 6 -> "Accessory was not able to perform the requested operation."]

\* constants.HapBleStatusCodes.Success
Success == 0

\* the Python slice bs[lo:hi]: cut at the end of bs, never an error
Slice(bs, lo, hi) == SubSeq(bs, lo + 1, Min(hi, Len(bs)))

\* a (format, unit) tuple
TupleV(format_, unit) == [t |-> "tuple", n |-> format_, b |-> <<unit>>]

\* the character of a hexadecimal digit: '0'..'9', 'a'..'f'
HexChar(d) == IF d < 10 THEN 48 + d ELSE 87 + d

\* utils.to_uuid(b): the hex string of the reversed bytes, cut at 8, 12, 16
\* and 20 characters and joined with '-'
to_uuid(b) ==
    LET digits == Hex(Reverse(b))
        s      == [j \in 1..Len(digits) |-> HexChar(digits[j])]
    IN  Slice(s, 0, 8) \o <<45>> \o Slice(s, 8, 12) \o <<45>> \o Slice(s, 12, 16)
        \o <<45>> \o Slice(s, 16, 20) \o <<45>> \o Slice(s, 20, Len(s))

\* b is well-formed UTF-8, as bytes.decode('utf-8') requires
RECURSIVE Utf8Valid(_)
Utf8Valid(b) ==
    LET Cont(j, lo, hi) == j <= Len(b) /\ b[j] >= lo /\ b[j] <= hi
        Rest(n) == Utf8Valid(SubSeq(b, n + 1, Len(b)))
    IN  \/ b = <<>>
        \/ b[1] <= 127 /\ Rest(1)
        \/ b[1] >= 194 /\ b[1] <= 223 /\ Cont(2, 128, 191) /\ Rest(2)
        \/ /\ b[1] >= 224 /\ b[1] <= 239
           /\ Cont(2, IF b[1] = 224 THEN 160 ELSE 128, IF b[1] = 237 THEN 159 ELSE 191)
           /\ Cont(3, 128, 191)
           /\ Rest(3)
        \/ /\ b[1] >= 240 /\ b[1] <= 244
           /\ Cont(2, IF b[1] = 240 THEN 144 ELSE 128, IF b[1] = 244 THEN 143 ELSE 191)
           /\ Cont(3, 128, 191)
           /\ Cont(4, 128, 191)
           /\ Rest(4)

\* a converter's result: the value, or the exception it raised
Converted(v) == [err |-> "ok", v |-> v]
Raised(err) == [err |-> err, v |-> NoneV]

\* utils.to_uint16(b): struct.unpack('<H', b) takes exactly two bytes
to_uint16(b) ==
    IF Len(b) # 2 THEN Raised("struct.error") ELSE Converted(IntV(b[1] + 256 * b[2]))

\* utils.to_utf8(b): the string is kept as its UTF-8 bytes
to_utf8(b) ==
    IF Utf8Valid(b) THEN Converted(StrV(b)) ELSE Raised("UnicodeDecodeError")

\* utils.parse_format(b): format (1 byte), exponent (1), unit (2),
\* namespace (1), description (the rest, which must be 2 bytes)
parse_format(b) ==
    IF Len(b) # 7 THEN Raised("struct.error")
    ELSE LET format_     == b[1]
             exponent    == b[2]
             unit        == b[3] + 256 * b[4]
             namespace   == b[5]
             description == b[6] + 256 * b[7]
         IN  IF exponent # 0 \/ namespace # 1 \/ description # 0
             THEN Raised("ValueError: Unexpected presentation format")
             ELSE Converted(TupleV(format_, unit))

\* converter(bytes_) for the converter of that name
convert(converter, b) ==
    CASE converter = "identity"     -> Converted(BytesV(b))
      [] converter = "to_uuid"      -> Converted(StrV(to_uuid(b)))
      [] converter = "to_uint16"    -> to_uint16(b)
      [] converter = "to_utf8"      -> to_utf8(b)
      [] converter = "parse_format" -> parse_format(b)

(***************************************************************************)
(* HapCharacteristic.signature_parse.                                      *)
(***************************************************************************)
\* how a call of signature_parse ends: "ok" or the exception raised, the
\* name and message of a HapBleError, and the setattr calls made, in order
Outcome(err, name, message, sets) ==
    [err |-> err, name |-> name, message |-> message, sets |-> sets]

\* HapBleError(status_code=status): the name and message of the status
\* table, whose lookup raises KeyError for a code that is not in it
HapBleError_status(status_code) ==
    IF status_code \in DOMAIN status_code_to_name
    THEN Outcome("HapBleError", status_code_to_name[status_code],
                 status_code_to_message[status_code], <<>>)
    ELSE Outcome("KeyError", "", "", <<>>)

\* HapBleError(name=name): the message stays None
HapBleError_name(name) == Outcome("HapBleError", name, "None", <<>>)

\* a registry that takes every unregistered type code for a Value
param_name_defaulting(body_type) ==
    IF body_type \in DOMAIN HAP_param_type_code_to_name
    THEN [err |-> "ok", name |-> HAP_param_type_code_to_name[body_type]]
    ELSE [err |-> "ok", name |-> "Value"]

\* constants.HAP_param_type_code_to_name[body_type], which raises KeyError
\* for a type code that is not registered
param_name(body_type) ==
    IF body_type \in DOMAIN HAP_param_type_code_to_name
    THEN [err |-> "ok", name |-> HAP_param_type_code_to_name[body_type]]
    ELSE [err |-> "KeyError", name |-> ""]

\* the loop of signature_parse over the triples iterate_tvl yields, which
\* ends with IndexError when the generator raises it
RECURSIVE parse_items(_, _)
parse_items(items, generator_raises) ==
    IF items = <<>>
    THEN Outcome(IF generator_raises THEN "IndexError" ELSE "ok", "", "", <<>>)
    ELSE LET body_type == Head(items)[1]
             length    == Head(items)[2]
             bytes_    == Head(items)[3]
             name      == param_name(body_type)
         IN  IF Len(bytes_) # length THEN HapBleError_name("Invalid response length")
             ELSE IF name.err # "ok" THEN Outcome(name.err, "", "", <<>>)
             ELSE LET value == convert(HAP_param_name_to_converter[name.name], bytes_)
                      rest  == parse_items(Tail(items), generator_raises)
                  IN  IF value.err # "ok" THEN Outcome(value.err, "", "", <<>>)
                      ELSE [rest EXCEPT !.sets = << <<name.name, value.v>> >> \o @]

Passed == Outcome("ok", "", "", <<>>)

\* a control field check that also lets the control field 0 pass
control_field_check_lenient(response) ==
    IF Len(response) < 1 THEN Outcome("IndexError", "", "", <<>>)
    ELSE IF response[1] # 2 /\ response[1] # 0
         THEN Outcome("ValueError: Invalid control field", "", "", <<>>)
    ELSE Passed

\* signature_parse: control_field = response[0] must be 2
control_field_check(response) ==
    IF Len(response) < 1 THEN Outcome("IndexError", "", "", <<>>)
    ELSE IF response[1] # 2 THEN Outcome("ValueError: Invalid control field", "", "", <<>>)
    ELSE Passed

\* a transaction id check that compares the ids modulo 255
transaction_id_check_mod_255(response, tid) ==
    IF Len(response) < 2 THEN Outcome("IndexError", "", "", <<>>)
    ELSE IF response[2] % 255 # tid % 255
         THEN Outcome("ValueError: Invalid transaction ID", "", "", <<>>)
    ELSE Passed

\* signature_parse: response[1] must be tid
transaction_id_check(response, tid) ==
    IF Len(response) < 2 THEN Outcome("IndexError", "", "", <<>>)
    ELSE IF response[2] # tid THEN Outcome("ValueError: Invalid transaction ID", "", "", <<>>)
    ELSE Passed

\* signature_parse: status = response[2] must be Success
status_check(response) ==
    IF Len(response) < 3 THEN Outcome("IndexError", "", "", <<>>)
    ELSE IF response[3] # Success THEN HapBleError_status(response[3])
    ELSE Passed

\* signature_parse: the bytes after byte 4 must be as many as the
\* little-endian u16 in response[3:5], which struct.unpack requires to be
\* two bytes
body_length_check(response) ==
    IF Len(Slice(response, 3, 5)) # 2 THEN Outcome("struct.error", "", "", <<>>)
    ELSE LET body_length == response[4] + 256 * response[5]
         IN  IF Len(response) - 5 # body_length
             THEN Outcome("ValueError: Invalid body length", "", "", <<>>)
             ELSE Passed

\* signature_parse with the status looked at before the control field and
\* the transaction id
signature_parse_status_first(response, tid) ==
    IF status_check(response) # Passed THEN status_check(response)
    ELSE IF control_field_check(response) # Passed THEN control_field_check(response)
    ELSE IF transaction_id_check(response, tid) # Passed
         THEN transaction_id_check(response, tid)
    ELSE IF body_length_check(response) # Passed THEN body_length_check(response)
    ELSE LET tvl == iterate_tvl(SubSeq(response, 6, Len(response)))
         IN  parse_items(tvl.items, tvl.err)

\* signature_parse(response, tid)
signature_parse(response, tid) ==
    IF control_field_check(response) # Passed THEN control_field_check(response)
    ELSE IF transaction_id_check(response, tid) # Passed
         THEN transaction_id_check(response, tid)
    ELSE IF status_check(response) # Passed THEN status_check(response)
    ELSE IF body_length_check(response) # Passed THEN body_length_check(response)
    ELSE LET tvl == iterate_tvl(SubSeq(response, 6, Len(response)))
         IN  parse_items(tvl.items, tvl.err)

\* the chunks a response body is made of: registered types with values
\* their converters take, values they refuse, types that are not
\* registered, a chunk that declares more bytes than follow, a lone type byte
BodyTlvs ==
    { <<1, 0>>, <<1, 1, 67>>, <<1, 2, 65, 66>>,
      <<7, 2, 1, 2>>, <<7, 1, 1>>,
      <<4, 2, 171, 205>>,
      <<11, 1, 65>>, <<11, 1, 255>>,
      <<12, 7, 1, 0, 2, 0, 1, 0, 0>>, <<12, 7, 1, 1, 2, 0, 1, 0, 0>>,
      <<12, 7, 6, 0, 2, 0, 1, 0, 0>>,
      <<0, 1, 5>>, <<19, 0>>, <<99, 1, 5>>,
      <<1, 3, 65>>, <<99, 2, 5>>, <<1>> }

\* response bodies: up to two chunks
Bodies == {<<>>} \cup BodyTlvs \cup {p \o q : p, q \in BodyTlvs}

\* control field, transaction id, status, body length (little endian), body
Response(control_field, tid, status, body_length, body) ==
    <<control_field, tid, status, body_length % 256, body_length \div 256>> \o body

\* the responses to a signature read with transaction id 1 that pass the
\* checks of the header
GoodResponses == {Response(2, 1, Success, Len(body), body) : body \in Bodies}

\* responses with another control field, transaction id, status or body
\* length, and responses shorter than the header
OtherBodies == {<<>>, <<1, 1, 67>>, <<99, 1, 5>>}

OtherResponses ==
    UNION { {Response(c, 1, Success, Len(body), body) : c \in {0, 1, 3, 255}}
            \cup {Response(2, t, Success, Len(body), body) : t \in {0, 255}}
            \cup {Response(2, 1, s, Len(body), body) : s \in {1, 2, 3, 4, 5, 6, 7, 255}}
            \cup {Response(2, 1, Success, Len(body) + d, body) : d \in {1, 2}}
            \cup {Response(0, 1, 3, Len(body) + 1, body),
                  Response(2, 0, 7, Len(body) + 1, body),
                  Response(2, 1, 3, Len(body) + 1, body)}
          : body \in OtherBodies }
    \cup {SubSeq(Response(2, 1, Success, 0, <<>>), 1, n) : n \in 0..4}
    \cup {<<0>>, <<3, 1>>, <<2, 0>>, <<2, 1, 3>>, <<2, 1, 7>>, <<2, 1, 0, 1, 0>>}

\* the expected transaction ids given to signature_parse
ParseTids == {0, 1, 255}

\* the (response, tid) pairs signature_parse is called with
ParseInputs ==
    {<<response, 1>> : response \in GoodResponses}
    \cup (OtherResponses \X ParseTids)

VARIABLES
    attrs,     \* the parameter attributes of the characteristic, NoneV if not set
    parsePc,   \* "fresh", "parsed" or "parsed twice"
    parseRet   \* the last call of signature_parse: its arguments and outcome

parseVars == <<attrs, parsePc, parseRet>>

NoParse ==
    [response |-> <<>>, tid |-> -1, err |-> "none", name |-> "", message |-> "",
     sets |-> <<>>]

ParseInit ==
    /\ attrs = [name \in ParamNames |-> NoneV]
    /\ parsePc = "fresh"
    /\ parseRet = NoParse

\* setattr(self, name, value) for each pair of sets, in order
RECURSIVE setattrs(_, _)
setattrs(self, sets) ==
    IF sets = <<>> THEN self
    ELSE setattrs([self EXCEPT ![Head(sets)[1]] = Head(sets)[2]], Tail(sets))

\* a call of signature_parse(response, tid) on the characteristic
signature_parse_call ==
    /\ parsePc \in {"fresh", "parsed"}
    /\ \E in \in ParseInputs :
          LET out == signature_parse(in[1], in[2])
          IN  /\ parseRet' = [response |-> in[1], tid |-> in[2], err |-> out.err,
                              name |-> out.name, message |-> out.message,
                              sets |-> out.sets]
              /\ attrs' = setattrs(attrs, out.sets)
    /\ parsePc' = IF parsePc = "fresh" THEN "parsed" ELSE "parsed twice"

(***************************************************************************)
(* HapBlePduRequestHeader.                                                 *)
(***************************************************************************)
\* the number of reads of one header's data and transation_id
MaxReads == 3

\* constants.HapBleOpCodes.Characteristic_Signature_Read
Characteristic_Signature_Read == 1

\* constants.HapBleOpCodes.Service_Signature_Read
Service_Signature_Read == 6

\* the op codes and the instance ids headers are built with
OpCodes == {Characteristic_Signature_Read, Service_Signature_Read}
CidSids == {<<1, 0>>, <<>>}

VARIABLES
    header,   \* the header's fields, once it is constructed
    draws,    \* the number of getrandbits(8) calls made for the header
    reads     \* the reads so far: the property read and the id it reported

hdrVars == <<header, draws, reads>>

NoHeader ==
    [made |-> FALSE, continuation |-> FALSE, response |-> FALSE, op_code |-> 0,
     given |-> NoneV, _transaction_id |-> NoneV, cid_sid |-> <<>>]

HdrInit ==
    /\ header = NoHeader
    /\ draws = 0
    /\ reads = <<>>

\* HapBlePduRequestHeader(cid_sid, op_code, continuation, response,
\* transation_id): transation_id is None unless the caller gives one
HapBlePduRequestHeader ==
    /\ ~header.made
    /\ \E continuation \in BOOLEAN, response \in BOOLEAN,
          transation_id \in {NoneV} \cup {IntV(t) : t \in Tids},
          op_code \in OpCodes, cid_sid \in CidSids :
          header' = [made |-> TRUE, continuation |-> continuation,
                     response |-> response,
                     op_code |-> op_code,
                     given |-> transation_id, _transaction_id |-> transation_id,
                     cid_sid |-> cid_sid]
    /\ UNCHANGED <<draws, reads>>

\* int(bits, 2) of a string of binary digits
RECURSIVE IntOfBits(_)
IntOfBits(bits) == IF bits = <<>> THEN 0
                   ELSE 2 * IntOfBits(SubSeq(bits, 1, Len(bits) - 1)) + bits[Len(bits)]

\* int(flag) of a bool
IntOfBool(flag) == IF flag THEN 1 ELSE 0

\* a control field with the response flag in the lowest bit
control_field_low_bit(self) ==
    IntOfBits(<<IntOfBool(self.continuation), 0, 0, 0, 0, 0, 0, IntOfBool(self.response)>>)

\* the property control_field: int("{continuation}00000{response}0", 2)
control_field(self) ==
    IntOfBits(<<IntOfBool(self.continuation), 0, 0, 0, 0, 0, IntOfBool(self.response), 0>>)

\* a transation_id that draws whenever the stored id is falsy (None or 0)
transation_id_if_falsy(self, drawn) ==
    IF self._transaction_id.t = "none" \/ self._transaction_id.n = 0
    THEN [self EXCEPT !._transaction_id = IntV(drawn)]
    ELSE self

\* the property transation_id: the header after the read, in which the id
\* is drawn (getrandbits(8) gives drawn) if it was None
transation_id(self, drawn) ==
    IF self._transaction_id.t = "none"
    THEN [self EXCEPT !._transaction_id = IntV(drawn)]
    ELSE self

\* the property data, of a header whose id is set:
\* struct.pack('<BBB', control_field, op_code, transation_id) + cid_sid
data(self) ==
    <<control_field(self), self.op_code, self._transaction_id.n>> \o self.cid_sid

\* a read of header.data or header.transation_id
Read(via) ==
    /\ header.made
    /\ Len(reads) < MaxReads
    /\ \E drawn \in Tids :
          LET self == transation_id(header, drawn)
          IN  /\ header' = self
              /\ draws' = IF self = header THEN draws ELSE draws + 1
              /\ reads' = Append(reads,
                    [via   |-> via,
                     id    |-> IF via = "data" THEN data(self)[3]
                               ELSE self._transaction_id.n,
                     bytes |-> IF via = "data" THEN data(self) ELSE <<>>])

read_data == Read("data")

read_transation_id == Read("transation_id")

(***************************************************************************)
(* Pair-Setup M1-M4 against an accessory that computes SRP6a on its own.   *)
(* The accessory sends its integers as the bytes from_bytes reads them as. *)
(***************************************************************************)
\* the salts and the secrets b of the accessory
SrpSalts == {1, 2, 9, 13}
AccessorySecrets == {1, 2, 3, 4}

\* the accessory's x = H(salt, H(identity ":" password))
accessory_x(salt, code) ==
    H(<<IntV(salt), IntV(H(<<StrV(USERNAME), StrV(code)>>, <<58>>, FALSE))>>, <<>>, FALSE)

\* the accessory's verifier v = g^x mod N
accessory_v(salt, code) == pow(g, accessory_x(salt, code), N)

\* the accessory's public key B = k*v + g^b mod N
accessory_B(v, b) == (k * v + pow(g, b, N)) % N

\* the accessory's shared secret S = (A * v^u)^b mod N
accessory_S(A, v, u, b) == pow(A * pow(v, u, N), b, N)

\* the integer of little-endian bytes, as the accessory reads the M3 values
RECURSIVE LittleEndianInt(_)
LittleEndianInt(bs) == IF bs = <<>> THEN 0 ELSE Head(bs) + 256 * LittleEndianInt(Tail(bs))

VARIABLES
    srpPc,   \* "new", "started", "m2", "m3" or "m4"
    peer,     \* the accessory: its code, salt, secret and what it computed
    ctl,     \* the controller's SRPPairSetup session
    srpErr   \* how the controller's last handler ended

srpVars == <<srpPc, peer, ctl, srpErr>>

NoAccessory ==
    [code |-> <<>>, salt |-> 0, b |-> 0, v |-> 0, B |-> 0, A |-> 0, M1 |-> 0,
     u |-> 0, S |-> 0, K |-> 0, M2 |-> 0]

SrpInit ==
    /\ srpPc = "new"
    /\ peer = NoAccessory
    /\ ctl = NewSession(NoCode)
    /\ srpErr = "none"

\* An accessory with a setup code, a salt and a secret b whose B is not 0
\* mod N, and SRPPairSetup(...) with the setup code given or not; the M1
\* request is sent.
srp_start ==
    /\ srpPc = "new"
    /\ \E code \in {Code1, Code2}, at_creation \in BOOLEAN,
          salt \in SrpSalts, b \in AccessorySecrets :
          LET v == accessory_v(salt, code.code)
          IN  /\ accessory_B(v, b) # 0
              /\ peer' = [NoAccessory EXCEPT !.code = code.code, !.salt = salt,
                                            !.b = b, !.v = v, !.B = accessory_B(v, b)]
              /\ ctl' = NewSession(IF at_creation THEN code ELSE NoCode)
    /\ srpPc' = "started"
    /\ UNCHANGED srpErr

\* m2_receive_srp_start_response with the accessory's M2
srp_m2 ==
    /\ srpPc = "started"
    /\ LET r == m2_result(ctl, [State |-> BytesV(ReadAs(2)),
                                PublicKey |-> ReadAs(peer.B), Salt |-> ReadAs(peer.salt)])
       IN  ctl' = r.sess /\ srpErr' = r.err
    /\ srpPc' = "m2"
    /\ UNCHANGED peer

\* m3_generate_srp_verify_request, with the setup code unless it was given
\* at creation; the accessory reads A and M1 from the M3 message and
\* computes u, S, K and its proof M2 = H(A, M1, K)
srp_m3 ==
    /\ srpPc = "m2"
    /\ srpErr = "ok"
    /\ \E a \in RandomInts :
          LET r  == m3_result(ctl, IF ctl.setup_code.given THEN NoCode
                                   ELSE [given |-> TRUE, code |-> peer.code], a)
              kt == parse_ktlvs(r.msg[2][2]).dict
              A  == LittleEndianInt(kt[kTLVType_PublicKey])
              M1 == LittleEndianInt(kt[kTLVType_Proof])
              u  == H(<<IntV(A), IntV(peer.B)>>, <<>>, TRUE)
              S  == accessory_S(A, peer.v, u, peer.b)
              K  == H(<<IntV(S)>>, <<>>, FALSE)
          IN  /\ ctl' = r.sess
              /\ srpErr' = r.err
              /\ peer' = [peer EXCEPT !.A = A, !.M1 = M1, !.u = u, !.S = S, !.K = K,
                            !.M2 = H(<<IntV(A), IntV(M1), IntV(K)>>, <<>>, FALSE)]
    /\ srpPc' = "m3"

\* m4_receive_srp_verify_response with the accessory's proof
srp_m4 ==
    /\ srpPc = "m3"
    /\ srpErr = "ok"
    /\ LET r == m4_result(ctl, [State |-> IntV(4), Proof |-> ReadAs(peer.M2)])
       IN  ctl' = r.sess /\ srpErr' = r.err
    /\ srpPc' = "m4"
    /\ UNCHANGED peer

(***************************************************************************)
(* The conversions between ints and bytes, applied one after the other.    *)
(***************************************************************************)
\* the largest int converted
MaxInt == 300

VARIABLES
    convPc,    \* "fresh", "bytes" after to_bytes, "int" after from_bytes
    conv       \* the int, the byte order, the bytes and the int read back

convVars == <<convPc, conv>>

NoConv == [value |-> 0, little_endian |-> TRUE, bytes |-> <<>>, back |-> 0, err |-> "none"]

ConvInit ==
    /\ convPc = "fresh"
    /\ conv = NoConv

\* to_bytes(value, little_endian) of an int and a byte order
to_bytes_call ==
    /\ convPc = "fresh"
    /\ \E value \in 0..MaxInt, little_endian \in BOOLEAN :
          conv' = [NoConv EXCEPT !.value = value, !.little_endian = little_endian,
                                 !.bytes = to_bytes(value, little_endian)]
    /\ convPc' = "bytes"

\* from_bytes of the bytes to_bytes returned, in the same byte order;
\* int('', 16) raises ValueError
from_bytes_call ==
    /\ convPc = "bytes"
    /\ conv' = IF from_bytes_defined(conv.bytes)
               THEN [conv EXCEPT !.back = from_bytes(conv.bytes, conv.little_endian),
                                 !.err = "ok"]
               ELSE [conv EXCEPT !.err = "ValueError"]
    /\ convPc' = "int"

(***************************************************************************)
(* The specifications.                                                     *)
(***************************************************************************)
vars == <<sess, storage, pc, ret, hist, writes, nextKey, calls,
          cid, retrying, call, wire, bleRet,
          tlvPc, source, stream, triples,
          attrs, parsePc, parseRet,
          header, draws, reads,
          srpPc, peer, ctl, srpErr,
          convPc, conv>>

\* what the Pair-Setup handlers, the reads of a characteristic and the codec
\* leave alone
notPairVars == <<bleVars, tlvVars, parseVars, hdrVars, srpVars, convVars>>
notBleVars == <<pairVars, tlvVars, parseVars, hdrVars, srpVars, convVars>>
notTlvVars == <<pairVars, bleVars, parseVars, hdrVars, srpVars, convVars>>
notParseVars == <<pairVars, bleVars, tlvVars, hdrVars, srpVars, convVars>>
notHdrVars == <<pairVars, bleVars, tlvVars, parseVars, srpVars, convVars>>
notSrpVars == <<pairVars, bleVars, tlvVars, parseVars, hdrVars, convVars>>
notConvVars == <<pairVars, bleVars, tlvVars, parseVars, hdrVars, srpVars>>

\* one Pair-Setup session
Init == Constructed(1, MaxCalls) /\ BleInit /\ TlvInit /\ ParseInit /\ HdrInit /\ SrpInit
        /\ ConvInit

\* two Pair-Setup sessions that share the storage folder
InitShared == Constructed(2, MaxSharedCalls) /\ BleInit /\ TlvInit /\ ParseInit /\ HdrInit /\ SrpInit
        /\ ConvInit

\* one characteristic
InitBle == Constructed(1, 0) /\ BleInit /\ TlvInit /\ ParseInit /\ HdrInit /\ SrpInit
        /\ ConvInit

\* a characteristic before any response is parsed
InitParse == Constructed(1, 0) /\ BleInit /\ TlvInit /\ ParseInit /\ HdrInit /\ SrpInit
        /\ ConvInit

\* before a header is constructed
InitHeader == Constructed(1, 0) /\ BleInit /\ TlvInit /\ ParseInit /\ HdrInit /\ SrpInit
        /\ ConvInit

\* before the accessory and the controller's session exist
InitSrp == Constructed(1, 0) /\ BleInit /\ TlvInit /\ ParseInit /\ HdrInit /\ SrpInit
        /\ ConvInit

\* before an int is converted
InitConv == Constructed(1, 0) /\ BleInit /\ TlvInit /\ ParseInit /\ HdrInit /\ SrpInit
        /\ ConvInit

\* the codec, before anything is encoded or received
InitTlv == Constructed(1, 0) /\ BleInit /\ TlvInit /\ ParseInit /\ HdrInit /\ SrpInit
        /\ ConvInit

Next ==
    \/ \E i \in Sessions : m1_generate_srp_start_request(i) /\ UNCHANGED notPairVars
    \/ \E i \in Sessions : m2_receive_srp_start_response(i) /\ UNCHANGED notPairVars
    \/ \E i \in Sessions : m3_generate_srp_verify_request(i) /\ UNCHANGED notPairVars
    \/ \E i \in Sessions : m4_receive_srp_verify_response(i) /\ UNCHANGED notPairVars
    \/ \E i \in Sessions : m5_generate_exchange_request(i) /\ UNCHANGED notPairVars
    \/ \E i \in Sessions : m6_receive_exchange_response(i) /\ UNCHANGED notPairVars
    \/ \E i \in Sessions : m6_write_accessory_ltpk(i) /\ UNCHANGED notPairVars

NextBle ==
    \/ assign_cid /\ UNCHANGED notBleVars
    \/ setup_tenacity /\ UNCHANGED notBleVars
    \/ read_called /\ UNCHANGED notBleVars
    \/ signature_read_attempt /\ UNCHANGED notBleVars
    \/ read_cid_attempt /\ UNCHANGED notBleVars

NextTlv ==
    \/ encode_tlv /\ UNCHANGED notTlvVars
    \/ receive_bytes /\ UNCHANGED notTlvVars
    \/ decode_tlv /\ UNCHANGED notTlvVars

NextParse == signature_parse_call /\ UNCHANGED notParseVars

NextHeader ==
    \/ HapBlePduRequestHeader /\ UNCHANGED notHdrVars
    \/ read_data /\ UNCHANGED notHdrVars
    \/ read_transation_id /\ UNCHANGED notHdrVars

NextSrp ==
    \/ srp_start /\ UNCHANGED notSrpVars
    \/ srp_m2 /\ UNCHANGED notSrpVars
    \/ srp_m3 /\ UNCHANGED notSrpVars
    \/ srp_m4 /\ UNCHANGED notSrpVars

NextConv ==
    \/ to_bytes_call /\ UNCHANGED notConvVars
    \/ from_bytes_call /\ UNCHANGED notConvVars

Spec == Init /\ [][Next]_vars

SpecShared == InitShared /\ [][Next]_vars

SpecBle == InitBle /\ [][NextBle]_vars

SpecTlv == InitTlv /\ [][NextTlv]_vars

SpecParse == InitParse /\ [][NextParse]_vars

SpecHeader == InitHeader /\ [][NextHeader]_vars

SpecSrp == InitSrp /\ [][NextSrp]_vars

SpecConv == InitConv /\ [][NextConv]_vars

(***************************************************************************)
(* Properties of Pair-Setup.                                               *)
(***************************************************************************)
Idle(i) == pc[i] = "idle"

\* C1: message order is enforced: m4_receive_srp_verify_response called on
\* a session on which m3_generate_srp_verify_request was never called fails
\* with the wrong-message (handshake state mismatch) error.
C1_OutOfOrderRejected ==
    \A i \in Sessions :
        (ret[i].op = "m4" /\ ~hist[i].m3called) => ret[i].err = "WrongMessage"

\* C2: fail closed: m5_generate_exchange_request returns an M5 message, or
\* creates and writes the long-term secret key, only on a session whose
\* most recent m4_receive_srp_verify_response verified the proof.
C2_FailClosed ==
    \A i \in Sessions :
        (ret[i].op = "m5" /\ (ret[i].msg # <<>> \/ writes[i]["secret-key"] > 0))
            => hist[i].m4 = "ok"

\* C3: after an accepted M2 and an M3, an M4 whose state is 4 and whose
\* proof is not H(A, M1, K) raises the authentication (proof mismatch)
\* error, and afterwards the session holds no K and no other ephemeral secret.
C3_TamperedProofDiscardsK ==
    \A i \in Sessions :
        (/\ ret[i].op = "m4"
         /\ ret[i].state = IntV(4)
         /\ hist[i].m3called
         /\ 0 < sess[i].B /\ sess[i].B < N
         /\ sess[i].M2 # M2_calc(sess[i]))
            => /\ ret[i].err = "AuthenticationFailed"
               /\ sess[i].K = 0 /\ sess[i].S = 0 /\ sess[i].a = 0

\* C4: an M2 is accepted exactly when its State is the one byte 0x02 and
\* its public key B has 0 < B < N, and then B and the salt are stored; an M2
\* with any other State raises an error and leaves B and s as they were.
C4_M2AcceptedIffState2 ==
    /\ [](\A i \in Sessions :
            ret[i].op = "m2" =>
                /\ ret[i].err = "ok"
                      => (ret[i].state = BytesV(<<2>>) /\ 0 < sess[i].B /\ sess[i].B < N)
                /\ ret[i].state = BytesV(<<2>>)
                      => ret[i].err \in {"ok", "InvalidPublicKey"})
    /\ [][\A i \in Sessions :
            (ret'[i].op = "m2" /\ ret'[i].state # BytesV(<<2>>))
                => /\ ret'[i].err # "ok"
                   /\ sess'[i].B = sess[i].B
                   /\ sess'[i].s = sess[i].s]_vars

\* C5: a shared secret S is computed only from a public key B with
\* B mod N # 0: m3_generate_srp_verify_request on a session whose B has
\* B mod N = 0 (B still 0, or left by a rejected M2) raises the
\* invalid-public-key error instead of computing S.
C5_NoSecretFromZeroKey ==
    \A i \in Sessions :
        (ret[i].op = "m3" /\ ret[i].err # "NoSetupCode" /\ sess[i].B % N = 0)
            => ret[i].err = "InvalidPublicKey"

\* C6: the signing key is generated once: the "secret-key" file, once
\* written, is never replaced by a different key, whichever session runs
\* M5, and a session that has a signing key keeps it.
C6_SecretKeyWrittenOnce ==
    [][/\ storage["secret-key"].by # 0
          => storage'["secret-key"].data = storage["secret-key"].data
       /\ \A i \in Sessions :
             sess[i].signing_key # NoKey => sess'[i].signing_key = sess[i].signing_key]_vars

\* Ed25519 verification of signature over msg under the public key ltpk
ed25519_verify(ltpk, msg, signature) == signature = ed25519_sign(ltpk, msg)

\* the accessory's signature held by a session verifies over the device
\* info of the accessory identity the session holds
SignatureVerifies(se) ==
    LET acc == [id |-> se.accessory_pairing_id, ltpk |-> se.accessory_ltpk]
    IN  ed25519_verify(se.accessory_ltpk, accessory_info(se.S, acc), se.accessory_signature)

\* C7: the accessory's pairing id and long-term public key are stored in
\* the session and written to storage only if the accessory's Ed25519
\* signature over its device info verifies.
C7_StoredOnlyIfSignatureVerifies ==
    \A i \in Sessions :
        (\/ sess[i].accessory_pairing_id # <<>>
         \/ sess[i].accessory_ltpk # <<>>
         \/ writes[i]["accessory_pairing_id"] > 0
         \/ writes[i]["accessory_ltpk"] > 0)
            => SignatureVerifies(sess[i])

AccessoryFiles == {"accessory_pairing_id", "accessory_ltpk"}

C9_StorageFromOneSession ==
    (\A i \in Sessions : Idle(i))
        => \A f1, f2 \in AccessoryFiles :
              (storage[f1].by # 0 /\ storage[f2].by # 0) => storage[f1].by = storage[f2].by

(***************************************************************************)
(* Properties of the retry-wrapped reads.                                  *)
(***************************************************************************)
\* C10: a retried signature read does not draw a new transaction id: every
\* request written to the device during one call of the retry-wrapped
\* signature_read carries the transaction id of the first.
C10_RetryKeepsTransactionId ==
    \A p, q \in DOMAIN wire : wire[p] = wire[q]


(***************************************************************************)
(* Properties of the TLV codec.                                            *)
(***************************************************************************)
Decoded == tlvPc = "decoded"

\* C11: TLV round trip: for every type code and every value, the empty one
\* and those longer than 255 bytes included, decoding the joined chunks of
\* the encoder with iterate_tvl raises nothing, yields only chunks of that
\* type carrying at most 255 bytes each, and their bytes reassembled in
\* order are the value.
C11_TlvRoundTrip ==
    (Decoded /\ source.given) =>
        /\ ~triples.err
        /\ Len(triples.items) >= 1
        /\ \A j \in 1..Len(triples.items) :
              /\ triples.items[j][1] = source.type
              /\ triples.items[j][2] = Len(triples.items[j][3])
              /\ triples.items[j][2] <= MaxChunk
        /\ reassemble(triples.items, source.type) = source.value
        /\ parse_ktlvs(stream).dict[source.type] = source.value

C11_Witness ==
    /\ Decoded
    /\ source.given
    /\ Len(source.value) > 2 * MaxChunk
    /\ Len(triples.items) = 3
    /\ reassemble(triples.items, source.type) = source.value

\* a byte string is a sequence of whole chunks [type][len][len bytes]
RECURSIVE WholeChunks(_)
WholeChunks(bs) ==
    \/ bs = <<>>
    \/ /\ Len(bs) >= 2
       /\ bs[2] <= Len(bs) - 2
       /\ WholeChunks(SubSeq(bs, 3 + bs[2], Len(bs)))

\* C12: iterate_tvl yields the triples in wire order, and a byte string in
\* which a chunk declares more bytes than remain, or a type byte has no
\* length byte, makes it fail: it never yields a value shorter than the
\* declared length.
C12_TruncatedChunkFails ==
    Decoded =>
        /\ stream = Concat([j \in 1..Len(triples.items) |->
                               <<triples.items[j][1], triples.items[j][2]>>
                               \o triples.items[j][3]])
              \o (IF triples.err THEN <<stream[Len(stream)]>> ELSE <<>>)
        /\ ~WholeChunks(stream) =>
              /\ triples.err
              /\ \A j \in 1..Len(triples.items) :
                    Len(triples.items[j][3]) = triples.items[j][2]


(***************************************************************************)
(* Properties of signature_parse.                                          *)
(***************************************************************************)
\* signature_parse was called; parseRet holds its arguments and outcome
Parsed == parseRet.err # "none"

\* the type codes of the parameter registry
RegisteredCodes == 1..18

\* the body of the parsed response and the triples iterate_tvl yields for it
ParsedBody == SubSeq(parseRet.response, 6, Len(parseRet.response))
ParsedItems == iterate_tvl(ParsedBody).items

\* the first n bytes of the parsed response exist, with the control field 2,
\* the expected transaction id and the status 0 as far as n reaches
HeaderValid(n) ==
    /\ Parsed
    /\ Len(parseRet.response) >= n
    /\ n >= 1 => parseRet.response[1] = 2
    /\ n >= 2 => parseRet.response[2] = parseRet.tid
    /\ n >= 3 => parseRet.response[3] = 0

\* the number of bytes after byte 4 is the little-endian u16 in bytes 3-4
BodyLengthExact ==
    /\ Len(parseRet.response) >= 5
    /\ Len(parseRet.response) - 5 = parseRet.response[4] + 256 * parseRet.response[5]

\* the value the registry's decoder gives for chunk j of the parsed body
Decoded_(j) ==
    convert(HAP_param_name_to_converter[HAP_param_type_code_to_name[ParsedItems[j][1]]],
            ParsedItems[j][3])

\* C13: in the mapping signature_parse builds, a name that appears in more
\* than one chunk of the body maps to the decoded concatenation of those
\* chunks' bytes in order of appearance, not to the last chunk only.
C13_RepeatedNameConcatenated ==
    (HeaderValid(3) /\ parseRet.err = "ok") =>
        \A c \in RegisteredCodes :
            Cardinality({j \in 1..Len(ParsedItems) : ParsedItems[j][1] = c}) >= 2 =>
                attrs[HAP_param_type_code_to_name[c]] =
                    convert(HAP_param_name_to_converter[HAP_param_type_code_to_name[c]],
                            reassemble(ParsedItems, c)).v

\* C14: a response whose byte 0 is not 2 is rejected with the invalid
\* control field error, whatever its other bytes and the expected
\* transaction id are, and nothing is set.
C14_ControlFieldRejected ==
    (Parsed /\ Len(parseRet.response) >= 1 /\ parseRet.response[1] # 2) =>
        /\ parseRet.err = "ValueError: Invalid control field"
        /\ parseRet.sets = <<>>

C14_Witness ==
    /\ Parsed
    /\ Len(parseRet.response) > 5
    /\ parseRet.response[1] = 0
    /\ parseRet.response[2] = parseRet.tid
    /\ parseRet.response[3] = 0
    /\ BodyLengthExact
    /\ parseRet.err = "ValueError: Invalid control field"

\* C15: a response with control field 2 whose byte 1 differs from the
\* expected transaction id is rejected with the transaction id error, and
\* nothing is set.
C15_TransactionIdRejected ==
    (HeaderValid(1) /\ Len(parseRet.response) >= 2
       /\ parseRet.response[2] # parseRet.tid) =>
        /\ parseRet.err = "ValueError: Invalid transaction ID"
        /\ parseRet.sets = <<>>

C15_Witness ==
    /\ HeaderValid(1)
    /\ Len(parseRet.response) > 5
    /\ parseRet.response[2] = 255
    /\ parseRet.tid = 0
    /\ parseRet.response[3] = 0
    /\ BodyLengthExact
    /\ parseRet.err = "ValueError: Invalid transaction ID"

\* C16: a response with valid control field and transaction id whose
\* status byte is not 0 fails with a HapBleError that carries the status
\* table's name and message for that code (code 3: "Insufficient
\* Authorization"), and nothing of the body is parsed.
C16_StatusRaisesHapBleError ==
    (HeaderValid(2) /\ Len(parseRet.response) >= 3 /\ parseRet.response[3] # 0) =>
        /\ parseRet.err = "HapBleError"
        /\ parseRet.sets = <<>>
        /\ parseRet.response[3] = 3 => parseRet.name = "Insufficient Authorization"
        /\ parseRet.response[3] \in DOMAIN status_code_to_name =>
              /\ parseRet.name = status_code_to_name[parseRet.response[3]]
              /\ parseRet.message = status_code_to_message[parseRet.response[3]]

\* C17: a response with valid control field, transaction id and status 0
\* passes the body length check exactly when the bytes after byte 4 are as
\* many as the u16 in bytes 3-4 says; every other one, those shorter than
\* the 5-byte header included, fails with the body length error.
C17_BodyLengthChecked ==
    HeaderValid(3) =>
        /\ BodyLengthExact => parseRet.err # "ValueError: Invalid body length"
        /\ ~BodyLengthExact =>
              /\ parseRet.err = "ValueError: Invalid body length"
              /\ parseRet.sets = <<>>

\* C18: a response that passes the header checks and has a body chunk
\* whose type code is outside 1..18 fails, no value is set for that chunk
\* or a later one, and when the loop reaches that chunk (the chunks before
\* it were set, and it has the bytes it declares) the error is the
\* registry's KeyError.
C18_UnknownTypeRejected ==
    (HeaderValid(3) /\ BodyLengthExact) =>
        \A j \in 1..Len(ParsedItems) :
            ParsedItems[j][1] \notin RegisteredCodes =>
                /\ parseRet.err # "ok"
                /\ Len(parseRet.sets) < j
                /\ (Len(parseRet.sets) = j - 1
                      /\ Len(ParsedItems[j][3]) = ParsedItems[j][2]) =>
                        parseRet.err = "KeyError"

C18_Witness ==
    /\ HeaderValid(3)
    /\ BodyLengthExact
    /\ Len(ParsedItems) = 2
    /\ ParsedItems[1][1] \in RegisteredCodes
    /\ ParsedItems[2][1] \notin RegisteredCodes
    /\ Len(parseRet.sets) = 1
    /\ parseRet.err = "KeyError"

C20_TransactionIdStable ==
    /\ draws <= 1
    /\ \A p \in DOMAIN reads :
          /\ reads[p].id = reads[1].id
          /\ reads[p].id \in 0..255
    /\ header.given.t = "int" =>
          /\ draws = 0
          /\ \A p \in DOMAIN reads : reads[p].id = header.given.n
    /\ header.given.t = "none" => (draws = 1 <=> reads # <<>>)

C20_Witness ==
    /\ header.made
    /\ Len(reads) >= 3
    /\ \E p, q \in DOMAIN reads : reads[p].via = "data" /\ reads[q].via = "transation_id"
    /\ \/ header.given = NoneV /\ draws = 1 /\ reads[1].id = 0
       \/ header.given = IntV(0) /\ draws = 0


\* C21: the data of a header is the control byte, the op code and the
\* transaction id, followed by the instance id bytes as given; the control
\* byte is 128 * continuation + 2 * response, one of 0, 2, 128, 130.
C21_HeaderData ==
    \A p \in DOMAIN reads :
        reads[p].via = "data" =>
            /\ reads[p].bytes =
                  <<128 * (IF header.continuation THEN 1 ELSE 0)
                      + 2 * (IF header.response THEN 1 ELSE 0),
                    header.op_code, reads[p].id>> \o header.cid_sid
            /\ reads[p].bytes[1] \in {0, 2, 128, 130}

C21_Witness ==
    /\ header.continuation
    /\ header.response
    /\ header.cid_sid # <<>>
    /\ \E p \in DOMAIN reads :
          /\ reads[p].via = "data"
          /\ reads[p].bytes = <<130, Service_Signature_Read, 255>> \o header.cid_sid


(***************************************************************************)
(* Properties of the SRP computation.                                      *)
(***************************************************************************)
\* C22: SRP6a cross-check: for every setup code, salt, controller secret a
\* and accessory secret b, the S that m3_generate_srp_verify_request
\* computes is the S the accessory computes as (A * v^u)^b mod N, the
\* session keys are equal, the M2 each side computes from (A, M1, K) is
\* the same, and m4_receive_srp_verify_response accepts the accessory's
\* proof.
C22_SrpCrossCheck ==
    /\ srpPc \in {"m3", "m4"} =>
          /\ srpErr = "ok"
          /\ ctl.S = peer.S
          /\ ctl.K = peer.K
          /\ M2_calc(ctl) = peer.M2
    /\ srpPc = "m4" => ctl.M2 = peer.M2

C22_Witness ==
    /\ srpPc = "m4"
    /\ srpErr = "ok"
    /\ ctl.S = peer.S
    /\ ctl.S > 1
    /\ ctl.u * ctl.x > 0


(***************************************************************************)
(* Properties of HapBleError and of the registries.                        *)
(***************************************************************************)
\* C23: every HapBleError carries a message: the message of an error that
\* signature_parse raises, the one for a chunk whose length differs from
\* the declared one included, is never absent.
C23_HapBleErrorHasMessage ==
    (Parsed /\ parseRet.err = "HapBleError") =>
        /\ parseRet.message # "None"
        /\ parseRet.message # ""

\* C24: the presentation-format registry maps every format code to a
\* decoder: when the presentation format parsed for the characteristic has
\* a format code of format_code_to_name, the name that code yields is a
\* key of format_name_to_converter.
C24_FormatCodeHasConverter ==
    LET format == attrs["GATT_Presentation_Format_Descriptor"]
    IN  (format.t = "tuple" /\ format.n \in DOMAIN format_code_to_name) =>
            format_code_to_name[format.n] \in DOMAIN format_name_to_converter

(***************************************************************************)
(* Properties of the request messages.                                     *)
(***************************************************************************)
\* the message is two TLVs, Return_Response with the one byte 1 and then
\* Value, and the first kTLV of the Value is kTLVType_State with the byte n
RequestShape(msg, n) ==
    /\ Len(msg) = 2
    /\ msg[1] = <<Return_Response, <<1>> >>
    /\ msg[2][1] = Value
    /\ LET ktlvs == iterate_tvl(msg[2][2])
       IN  /\ ~ktlvs.err
           /\ ktlvs.items # <<>>
           /\ ktlvs.items[1] = <<kTLVType_State, 1, <<n>> >>

\* C25: every request generator of Pair-Setup (M1, M3 with a setup code,
\* M5) returns a message of exactly two TLVs in this order: Return_Response
\* with the one-byte value 1, then Value holding the encoded kTLVs, the
\* first of them kTLVType_State with the number of the step.
C25_RequestMessageShape ==
    \A i \in Sessions :
        (ret[i].op \in {"m1", "m3", "m5"} /\ ret[i].err # "NoSetupCode") =>
            RequestShape(ret[i].msg, OpNumber(ret[i].op))

\* the step is a call of m3_generate_srp_verify_request on session i
M3Step(i) ==
    /\ calls' = calls - 1
    /\ pc[i] = "idle"
    /\ pc'[i] = "idle"
    /\ ret'[i].op = "m3"
    /\ <<ret'[i], sess'[i], hist'[i]>> # <<ret[i], sess[i], hist[i]>>

\* x as M3 derives it from the salt and a setup code
x_of(s, code) ==
    H(<<IntV(s), IntV(H(<<StrV(USERNAME), StrV(code.code)>>, <<58>>, FALSE))>>, <<>>, FALSE)

\* C26: m3_generate_srp_verify_request uses the setup code given at creation
\* when there is one and otherwise the code passed to M3; when neither was
\* given it raises an error and leaves every field of the session as it was.
C26_SetupCodeAtM3 ==
    [][\A i \in Sessions :
          M3Step(i) =>
             /\ sess[i].setup_code.given =>
                   /\ ret'[i].err = "ok"
                   /\ sess'[i].setup_code = sess[i].setup_code
             /\ ret'[i].err = "ok" =>
                   /\ sess'[i].setup_code.given
                   /\ sess'[i].setup_code \in {sess[i].setup_code, Code2}
                   /\ sess'[i].x = x_of(sess[i].s, sess'[i].setup_code)
             /\ ret'[i].err # "ok" =>
                   /\ ret'[i].err = "NoSetupCode"
                   /\ ~sess[i].setup_code.given
                   /\ sess'[i] = sess[i]]_vars

C26_Witness ==
    /\ ret[1].op = "m3"
    /\ ret[1].err = "NoSetupCode"
    /\ sess[1] = NewSession(NoCode)
    /\ ret[2].op = "m3"
    /\ ret[2].err = "ok"
    /\ sess[2].setup_code = Code1
    /\ sess[2].A > 1

(***************************************************************************)
(* Properties of the order and the effect of signature_parse.              *)
(***************************************************************************)
\* the body length the header of the response declares is not the number
\* of bytes that follow the header
BodyLengthWrong(response) ==
    Len(response) - 5 # response[4] + 256 * response[5]

\* C27: signature_parse applies its checks in a fixed order: control field,
\* transaction id, status, body length, then the TLVs.  The error raised is
\* the one of the first of these that fails, whatever the later fields
\* hold, and no attribute is set before all four have passed.
C27_ChecksInOrder ==
    Parsed =>
       LET response == parseRet.response
           tid      == parseRet.tid
           n        == Len(response)
       IN  /\ (n >= 1 /\ response[1] # 2) =>
                  parseRet.err = "ValueError: Invalid control field"
           /\ (n >= 2 /\ response[1] = 2 /\ response[2] # tid) =>
                  parseRet.err = "ValueError: Invalid transaction ID"
           /\ (n >= 3 /\ response[1] = 2 /\ response[2] = tid /\ response[3] # Success) =>
                  /\ parseRet.err \in {"HapBleError", "KeyError"}
                  /\ parseRet.err = "HapBleError" =>
                        parseRet.name = status_code_to_name[response[3]]
           /\ (n >= 5 /\ response[1] = 2 /\ response[2] = tid /\ response[3] = Success
                 /\ BodyLengthWrong(response)) =>
                  parseRet.err = "ValueError: Invalid body length"
           /\ parseRet.sets # <<>> =>
                  /\ n >= 5
                  /\ response[1] = 2
                  /\ response[2] = tid
                  /\ response[3] = Success
                  /\ ~BodyLengthWrong(response)

\* a response with all four header fields wrong reports the control field
C27_Witness ==
    /\ Parsed
    /\ Len(parseRet.response) > 5
    /\ parseRet.response[1] # 2
    /\ parseRet.response[2] # parseRet.tid
    /\ parseRet.response[3] # Success
    /\ BodyLengthWrong(parseRet.response)
    /\ parseRet.err = "ValueError: Invalid control field"

\* C28: signature_parse is all-or-nothing: a call that raises, for
\* whichever reason, leaves the parameter attributes of the characteristic
\* as they were before the call.
C28_AllOrNothing ==
    [][(parsePc' # parsePc /\ parseRet'.err # "ok") => attrs' = attrs]_vars

(***************************************************************************)
(* Properties of the conversions.                                          *)
(***************************************************************************)
\* C29: to_bytes and from_bytes are inverse for the same byte order: for
\* every int v >= 0 and both values of little_endian,
\* from_bytes(to_bytes(v, little_endian), little_endian) is v.
C29_BytesRoundTrip ==
    convPc = "int" =>
        /\ conv.err = "ok"
        /\ conv.back = conv.value

(***************************************************************************)
(* Properties of the scan of iterate_tvl.                                  *)
(***************************************************************************)
\* the scan position after the first j triples: each adds 2 + length
RECURSIVE ScanPosition(_, _)
ScanPosition(items, j) ==
    IF j = 0 THEN 0 ELSE ScanPosition(items, j - 1) + 2 + items[j][2]

\* C30: iterate_tvl ends on every input: each triple is read at the scan
\* position, which then advances by 2 + length >= 2 bytes; at most
\* len(response) / 2, rounded up, triples are yielded; the empty input
\* yields nothing; a zero-length chunk yields an empty value and advances
\* the scan by exactly 2.
C30_ScanAdvances ==
    Decoded =>
       LET items == triples.items
           n     == Len(items)
       IN  /\ n <= (Len(stream) + 1) \div 2
           /\ stream = <<>> => (items = <<>> /\ ~triples.err)
           /\ \A j \in 1..n :
                 LET start == ScanPosition(items, j - 1)
                 IN  /\ start + 2 <= Len(stream)
                     /\ items[j][1] = stream[start + 1]
                     /\ items[j][2] = stream[start + 2]
                     /\ ScanPosition(items, j) >= start + 2
                     /\ items[j][2] = 0 =>
                           /\ items[j][3] = <<>>
                           /\ ScanPosition(items, j) = start + 2
           /\ IF triples.err
              THEN ScanPosition(items, n) = Len(stream) - 1
              ELSE ScanPosition(items, n) >= Len(stream)

\* two zero-length chunks: as many triples as the bound allows
C30_Witness ==
    /\ Decoded
    /\ Len(stream) = 4
    /\ stream[2] = 0
    /\ stream[4] = 0
    /\ Len(triples.items) = 2
    /\ triples.items[1][3] = <<>>
    /\ triples.items[2] = <<stream[3], 0, <<>> >>

(***************************************************************************)
(* Properties of the retried reads.                                        *)
(***************************************************************************)
\* C31: after setup with max_attempts = n, a call of read_cid or of
\* signature_read makes at most n attempts: a reconnect is attempted before
\* each attempt, an error that is no transport error ends the call at its
\* first attempt, and n failed attempts end the call with an error.
C31_AtMostMaxAttempts ==
    /\ (call.fn # "none" /\ retrying # <<>>) =>
          /\ call.attempt <= retrying[Len(retrying)]
          /\ call.reconnects >= call.attempt
    /\ bleRet.max_attempts > 0 =>
          /\ bleRet.attempts <= bleRet.max_attempts
          /\ bleRet.reconnects >= bleRet.attempts
          /\ bleRet.err \in {"AttributeError", "TypeError"} => bleRet.attempts = 1
          /\ bleRet.err = "RetryError" => bleRet.attempts = bleRet.max_attempts
          /\ bleRet.err # "BTLEException"

\* C32: read_cid reads the characteristic-instance-id descriptor at most
\* once per characteristic: the first read_cid on a freshly constructed
\* characteristic reads the descriptor and sets cid, and a read_cid or a
\* signature_read on a characteristic that has its cid leaves cid as it is
\* and reads no descriptor.
C32_CidReadOnce ==
    [][(call.fn # "none" /\ call' = NoRead) =>
          /\ (call.fn = "read_cid" /\ cid = "absent") =>
                /\ bleRet'.err = "ok"
                /\ bleRet'.descriptor_read
                /\ cid' = "bytes"
          /\ cid = "bytes" =>
                /\ cid' = cid
                /\ ~bleRet'.descriptor_read
          /\ call.fn = "signature_read" =>
                /\ cid' = cid
                /\ ~bleRet'.descriptor_read]_vars

====
